---- MODULE Spec2Model ----
(***************************************************************************)
(* The image transformation pipeline of src/image_processing.py            *)
(* (background keying, colour enhancement, depth map, 3D effect) and the   *)
(* before/after slider composite of src/image_tools.py; the NFTMinter of   *)
(* src/models/nft_mining.py; the Streamlit session of src/app.py.          *)
(*                                                                         *)
(* An image is a record [mode, w, h, px]: px[y][x] is the tuple of band    *)
(* values of the pixel in column x of row y (row-major, top-left origin,   *)
(* as numpy's data[y][x] and PIL's getpixel((x, y))).  Modes are the PIL   *)
(* modes the code meets: "RGB" (3 bands), "RGBA" (4), "LA" (2), "L" (1).   *)
(***************************************************************************)
EXTENDS Integers, Sequences, FiniteSets, TLC

VARIABLES
    image,            \* full_2d_to_3d_pipeline: the argument
    pc,               \* full_2d_to_3d_pipeline: the statement reached
    cleaned,          \* full_2d_to_3d_pipeline: local cleaned
    enhanced,         \* full_2d_to_3d_pipeline: local enhanced
    depth,            \* full_2d_to_3d_pipeline: local depth
    final_3d,         \* full_2d_to_3d_pipeline: local final_3d
    result,           \* full_2d_to_3d_pipeline: the returned triple
    rekeyed,          \* remove_white_background called on its own output
    before_img,       \* create_before_after_comparison: argument
    after_img,        \* create_before_after_comparison: argument
    slider_position,  \* create_before_after_comparison: argument
    composite,        \* create_before_after_comparison: the returned image
    outcome,          \* create_before_after_comparison: "pending", "returned" or the exception raised
    factor,           \* ImageEnhance.Color(image).enhance(factor): the factor, as num/den
    runs,             \* concurrent calls of full_2d_to_3d_pipeline: each call's locals
    minted_nfts,      \* NFTMinter.minted_nfts: the list of NFTs, each [token_id, owner]
    nft_call,         \* the last call on the NFTMinter: its name, arguments and return value
    nft_holder,       \* history: per token id, who minted it or last received it by a successful transfer
    session,          \* st.session_state: the keys present and their values
    spc,              \* app.py: the statement the running script has reached, "idle" between runs
    clicked,          \* the button whose click started the running script, "none" without one
    widgets,          \* the buttons the page shows: those drawn by the last run
    shown,            \* app.py: the page renderer the if/elif chain called in this run
    run_error         \* the exception that ended the run, "none" without one

vars == <<image, pc, cleaned, enhanced, depth, final_3d, result, rekeyed,
          before_img, after_img, slider_position, composite, outcome, factor, runs,
          minted_nfts, nft_call, nft_holder,
          session, spc, clicked, widgets, shown, run_error>>

pipelineVars == <<image, pc, cleaned, enhanced, depth, final_3d, result, rekeyed>>
sliderVars == <<before_img, after_img, slider_position, composite, outcome>>
harnessVars == <<factor, runs>>
minterVars == <<minted_nfts, nft_call, nft_holder>>
sessionVars == <<session, spc, clicked, widgets, shown, run_error>>

---------------------------------------------------------------------------
(* Bounds of the model. *)

\* Largest width of an input image.
MaxW == 3
\* Largest height of an input image.
MaxH == 3
\* Largest column / row stride of the pixel patterns the inputs are drawn from.
MaxStride == 2
\* Largest palette offset of the slider's input images.
MaxShade == 1
\* Largest enhancement factor handed to the colour enhancer, in halves.
MaxFactorHalves == 3
\* Largest token id generate_token_id draws.
MaxTokenId == 3
\* Most calls of mint_nft on one NFTMinter.
MaxMints == 1

---------------------------------------------------------------------------
(* The image value. *)

NoImage == [mode |-> "none", w |-> 0, h |-> 0, px |-> <<>>]

Bands(mode) ==
    CASE mode = "RGBA" -> 4
      [] mode = "RGB"  -> 3
      [] mode = "LA"   -> 2
      [] mode = "L"    -> 1
      [] OTHER         -> 0

\* The value of f, computed once: TLC evaluates a function expression anew
\* at every application unless it is held as a value.
Evaluated(f) == CHOOSE g \in {f} : g = f

Rows(im) == 0 .. (im.h - 1)
Cols(im) == 0 .. (im.w - 1)

\* The pixels the inputs are built from, as (R, G, B, A): white and
\* near-white on both sides of the keying threshold, with full, partial and
\* zero alpha, and saturated colours.
Palette ==
    << <<255, 255, 255, 255>>,
       <<200,  30,  30, 255>>,
       <<240, 240, 240, 255>>,
       <<241, 241, 241, 128>>,
       <<241, 240, 255, 255>>,
       << 10, 120, 250, 200>>,
       <<  0,   0,   0,   0>>,
       <<255, 250, 245,   0>> >>

\* A decoded upload of the given mode and size: pixel (x, y) is the palette
\* entry (a*x + b*y + c) mod |Palette|; a = b = 0 is a solid image.
Gen(mode, w, h, a, b, c) ==
    [mode |-> mode, w |-> w, h |-> h,
     px |-> Evaluated([y \in 0 .. (h - 1) |-> [x \in 0 .. (w - 1) |->
              SubSeq(Palette[((a * x + b * y + c) % Len(Palette)) + 1], 1, Bands(mode))]])]

Inputs ==
    { Gen(m, w, h, a, b, c) :
        m \in {"RGB", "RGBA"}, w \in 1 .. MaxW, h \in 1 .. MaxH,
        a \in 0 .. MaxStride, b \in 0 .. MaxStride, c \in 0 .. (Len(Palette) - 1) }

---------------------------------------------------------------------------
(* PIL and numpy operations the code calls. *)

\* The mutant of Luma that averages the three channels.
LumaAverage(p) == (p[1] + p[2] + p[3]) \div 3

\* ITU-R 601-2 luma as PIL's rgb2l / rgb2la compute it (16-bit fixed point,
\* rounded).
Luma(p) == (p[1] * 19595 + p[2] * 38470 + p[3] * 7471 + 32768) \div 65536

\* Image.convert for the mode pairs the code meets.
ConvertPixel(from, to, p) ==
    CASE from = to                     -> p
      [] from = "RGB"  /\ to = "RGBA"  -> <<p[1], p[2], p[3], 255>>
      [] from = "RGBA" /\ to = "RGB"   -> <<p[1], p[2], p[3]>>
      [] from = "RGB"  /\ to = "L"     -> <<Luma(p)>>
      [] from = "RGBA" /\ to = "L"     -> <<Luma(p)>>
      [] from = "RGB"  /\ to = "LA"    -> <<Luma(p), 255>>
      [] from = "RGBA" /\ to = "LA"    -> <<Luma(p), p[4]>>
      [] from = "L"    /\ to = "RGB"   -> <<p[1], p[1], p[1]>>
      [] from = "L"    /\ to = "RGBA"  -> <<p[1], p[1], p[1], 255>>
      [] from = "L"    /\ to = "LA"    -> <<p[1], 255>>
      [] from = "LA"   /\ to = "RGBA"  -> <<p[1], p[1], p[1], p[2]>>
      [] from = "LA"   /\ to = "RGB"   -> <<p[1], p[1], p[1]>>
      [] from = "LA"   /\ to = "L"     -> <<p[1]>>

convert(im, mode) ==
    [mode |-> mode, w |-> im.w, h |-> im.h,
     px |-> Evaluated([y \in Rows(im) |-> [x \in Cols(im) |-> ConvertPixel(im.mode, mode, im.px[y][x])]])]

\* The mutant of BlendBand that stores the extrapolated value modulo 256.
BlendBandWrap(v1, v2, num, den) ==
    ((den * v1 + num * (v2 - v1)) \div den) % 256

\* Image.blend(im1, im2, alpha) with alpha = num/den: im1 + alpha*(im2 - im1)
\* per band; an alpha inside [0,1] interpolates (the float is truncated to
\* 8 bits), an alpha outside extrapolates and clips to [0,255].
BlendBand(v1, v2, num, den) ==
    LET t == den * v1 + num * (v2 - v1)
    IN  IF 0 <= num /\ num <= den THEN t \div den
        ELSE IF t <= 0 THEN 0
        ELSE IF t >= 255 * den THEN 255
        ELSE t \div den

blend(im1, im2, num, den) ==
    [mode |-> im1.mode, w |-> im1.w, h |-> im1.h,
     px |-> Evaluated([y \in Rows(im1) |-> [x \in Cols(im1) |->
              [k \in 1 .. Bands(im1.mode) |->
                 BlendBand(im1.px[y][x][k], im2.px[y][x][k], num, den)]]])]

\* A band of an image as a plane pl[y][x] of integers, and back.
getchannel(im, k) == Evaluated([y \in Rows(im) |-> [x \in Cols(im) |-> im.px[y][x][k]]])

merge(mode, w, h, planes) ==
    [mode |-> mode, w |-> w, h |-> h,
     px |-> Evaluated([y \in 0 .. (h - 1) |-> [x \in 0 .. (w - 1) |->
              [k \in 1 .. Bands(mode) |-> planes[k][y][x]]]])]

---------------------------------------------------------------------------
(* remove_white_background *)

\* The keying threshold of the comparison red > 240 etc.
WhiteThreshold == 240

\* The mutant of IsWhite that compares with >=.
IsWhiteInclusive(r, g, b) ==
    r >= WhiteThreshold /\ g >= WhiteThreshold /\ b >= WhiteThreshold

\* (red > 240) & (green > 240) & (blue > 240), for one pixel.
IsWhite(r, g, b) ==
    r > WhiteThreshold /\ g > WhiteThreshold /\ b > WhiteThreshold

\* np.array(image) of an RGBA image is data[y][x][k] of shape (h, w, 4);
\* data.T has shape (4, w, h): band k of data.T is the plane t[x][y].
ArrayT(im, k) == Evaluated([x \in Cols(im) |-> [y \in Rows(im) |-> im.px[y][x][k]]])

\* m.T of a 2-D array m of shape (n0, n1).
Transposed(m, n0, n1) ==
    Evaluated([j \in 0 .. (n1 - 1) |-> [i \in 0 .. (n0 - 1) |-> m[i][j]]])

\* The mutant of fromarray that reads the shape as (width, height).
fromarraySwapped(data, n0, n1) ==
    [mode |-> "RGBA", w |-> n0, h |-> n1, px |-> data]

\* Image.fromarray(data) of an array of shape (n0, n1, 4): n0 rows of n1
\* pixels, so the image is n1 wide and n0 high.
fromarray(data, n0, n1) ==
    [mode |-> "RGBA", w |-> n1, h |-> n0, px |-> data]

\* The mutant of ToRGBA that drops the alpha channel before promoting.
ToRGBAOpaque(im) == convert(convert(im, "RGB"), "RGBA")

\* image.convert("RGBA")
ToRGBA(im) == convert(im, "RGBA")

remove_white_background(im0) ==
    LET im          == ToRGBA(im0)
        red         == ArrayT(im, 1)
        green       == ArrayT(im, 2)
        blue        == ArrayT(im, 3)
        white_areas == [x \in Cols(im) |-> [y \in Rows(im) |->
                          IsWhite(red[x][y], green[x][y], blue[x][y])]]
        maskT       == Transposed(white_areas, im.w, im.h)
        data        == [y \in Rows(im) |-> [x \in Cols(im) |->
                          IF maskT[y][x] THEN <<0, 0, 0, 0>> ELSE im.px[y][x]]]
    IN  fromarray(data, im.h, im.w)

---------------------------------------------------------------------------
(* enhance_colors *)

\* The factor 1.5 of enhancer.enhance(1.5), as ColorFactorNum / ColorFactorDen.
ColorFactorNum == 3
ColorFactorDen == 2

\* The mutant of Degenerate that always goes through "L", losing alpha.
DegenerateL(im) == convert(convert(im, "L"), im.mode)

\* ImageEnhance.Color(image).degenerate: the image through "L" ("LA" when it
\* has an alpha band) and back to its own mode.
Degenerate(im) ==
    LET intermediate_mode == IF im.mode \in {"RGBA", "LA"} THEN "LA" ELSE "L"
    IN  convert(convert(im, intermediate_mode), im.mode)

\* The mutant of enhance that blends from the image towards the degenerate.
enhanceSwapped(im, num, den) == blend(im, Degenerate(im), num, den)

\* ImageEnhance.Color(image).enhance(factor) = Image.blend(degenerate, image, factor)
enhance(im, num, den) == blend(Degenerate(im), im, num, den)

enhance_colors(im) == enhance(im, ColorFactorNum, ColorFactorDen)

---------------------------------------------------------------------------
(* create_depth_map *)

\* ImageFilter.GaussianBlur(radius=5): PIL blurs with three passes of a box blur per axis.  For radius 5 the box
\* radius is 4.45: the 9 pixels within BoxRadius weigh ww = 2^24 / 9.9 each
\* and the two at distance BoxRadius + 1 weigh fw = (2^24 - 9 ww) / 2 each.
\* The weights are kept halved (ww = 1694668, fw = 762602) so that the sums
\* stay within 32 bits.
BoxPasses == 3
BoxRadius == 4
BoxWeightHalf == 847334
FarWeightHalf == 381301

\* Index i clamped to 0 .. n-1: the blur extends a line by its edge pixels.
ClampIndex(i, n) == IF i < 0 THEN 0 ELSE IF i > n - 1 THEN n - 1 ELSE i

\* The mutant of EdgeIndex that wraps around the line.
WrapIndex(i, n) == i % n

\* The pixel a blur window reads at position i of a line of n pixels.
EdgeIndex(i, n) == ClampIndex(i, n)

RECURSIVE WindowSum(_, _, _, _)
\* line[lo] + ... + line[hi], each index taken through EdgeIndex.
WindowSum(line, n, lo, hi) ==
    IF lo > hi THEN 0
    ELSE line[EdgeIndex(lo, n)] + WindowSum(line, n, lo + 1, hi)

\* One box-blur pass over a line of n 8-bit values (ImagingLineBoxBlur8).
BoxBlurLine(line, n) ==
    [x \in 0 .. (n - 1) |->
        LET acc == WindowSum(line, n, x - BoxRadius, x + BoxRadius)
            far == line[EdgeIndex(x - BoxRadius - 1, n)] + line[EdgeIndex(x + BoxRadius + 1, n)]
        IN  (acc * BoxWeightHalf + far * FarWeightHalf + 4194304) \div 8388608]

RECURSIVE BoxBlurLines(_, _, _, _)
\* passes box-blur passes over every line of a plane of rows lines of n.
BoxBlurLines(plane, rows, n, passes) ==
    IF passes = 0 THEN plane
    ELSE BoxBlurLines(Evaluated([y \in 0 .. (rows - 1) |-> BoxBlurLine(plane[y], n)]),
                      rows, n, passes - 1)

\* gray.filter(ImageFilter.GaussianBlur(radius=5)) on a plane pl[y][x]:
\* the passes along x, then, transposed, along y.
GaussianBlur5(plane, w, h) ==
    LET horizontal == BoxBlurLines(plane, h, w, BoxPasses)
        vertical   == BoxBlurLines(Transposed(horizontal, h, w), w, h, BoxPasses)
    IN  Transposed(vertical, w, h)

\* The mutant of grayscale that takes the red channel for the luminance.
grayscaleRed(im) ==
    [mode |-> "L", w |-> im.w, h |-> im.h,
     px |-> Evaluated([y \in Rows(im) |-> [x \in Cols(im) |-> <<im.px[y][x][1]>>]])]

\* ImageOps.grayscale(image) = image.convert("L")
grayscale(im) == convert(im, "L")

create_depth_map(im) ==
    LET gray == grayscale(im)
    IN  merge("L", gray.w, gray.h, <<GaussianBlur5(getchannel(gray, 1), gray.w, gray.h)>>)

---------------------------------------------------------------------------
(* create_3d_effect *)

\* ImageFilter.EMBOSS and ImageFilter.FIND_EDGES: 3x3 kernels, scale 1.
\* PIL applies the first kernel row to the image row below the pixel.
EMBOSS == [offset |-> 128, kernel |-> <<-1, 0, 0,   0, 1, 0,   0, 0, 0>>]
FIND_EDGES == [offset |-> 0, kernel |-> <<-1, -1, -1,   -1, 8, -1,   -1, -1, -1>>]

clip8(v) == IF v <= 0 THEN 0 ELSE IF v >= 255 THEN 255 ELSE v

\* The mutant of Filter3x3 that extends the band by its edge pixels and
\* applies the kernel to every pixel, border included.
Filter3x3Replicate(plane, w, h, f) ==
    Evaluated([y \in 0 .. (h - 1) |-> [x \in 0 .. (w - 1) |->
        LET at(dy, dx) == plane[ClampIndex(y + dy, h)][ClampIndex(x + dx, w)]
        IN  clip8(f.offset
                  + at(1, -1)  * f.kernel[1] + at(1, 0)  * f.kernel[2] + at(1, 1)  * f.kernel[3]
                  + at(0, -1)  * f.kernel[4] + at(0, 0)  * f.kernel[5] + at(0, 1)  * f.kernel[6]
                  + at(-1, -1) * f.kernel[7] + at(-1, 0) * f.kernel[8] + at(-1, 1) * f.kernel[9])]])

\* ImagingFilter3x3 on one 8-bit band: an image smaller than the kernel is
\* copied; otherwise the first and last row and column are copied from the
\* input and every other pixel is the clipped kernel sum.
Filter3x3(plane, w, h, f) ==
    IF w < 3 \/ h < 3 THEN plane
    ELSE Evaluated([y \in 0 .. (h - 1) |-> [x \in 0 .. (w - 1) |->
            IF x = 0 \/ y = 0 \/ x = w - 1 \/ y = h - 1 THEN plane[y][x]
            ELSE clip8(f.offset
                       + plane[y + 1][x - 1] * f.kernel[1] + plane[y + 1][x] * f.kernel[2] + plane[y + 1][x + 1] * f.kernel[3]
                       + plane[y][x - 1]     * f.kernel[4] + plane[y][x]     * f.kernel[5] + plane[y][x + 1]     * f.kernel[6]
                       + plane[y - 1][x - 1] * f.kernel[7] + plane[y - 1][x] * f.kernel[8] + plane[y - 1][x + 1] * f.kernel[9])]])

\* image.filter(f): every band is filtered on its own and the bands merged.
filter(im, f) ==
    merge(im.mode, im.w, im.h,
          Evaluated([k \in 1 .. Bands(im.mode) |-> Filter3x3(getchannel(im, k), im.w, im.h, f)]))

\* The mutant of create_3d_effect that blends with weights 3/4 and 1/4.
create_3d_effectUnequal(im) ==
    blend(filter(im, EMBOSS), filter(im, FIND_EDGES), 1, 4)

create_3d_effect(im) ==
    LET embossed == filter(im, EMBOSS)
        edges    == filter(im, FIND_EDGES)
        combined == blend(embossed, edges, 1, 2)
    IN  combined

---------------------------------------------------------------------------
(* full_2d_to_3d_pipeline, one action per statement *)

\* No NFTMinter has been constructed.
NoCall == [op |-> "none", token_id |-> 0, from |-> "", to |-> "", ret |-> FALSE]

MinterIdle ==
    /\ minted_nfts = <<>>
    /\ nft_call = NoCall
    /\ nft_holder = <<>>

\* No browser session is open on app.py.
SessionIdle ==
    /\ session = <<>>
    /\ spc = "off"
    /\ clicked = "none"
    /\ widgets = {}
    /\ shown = "none"
    /\ run_error = "none"

\* No enhancer call with a chosen factor, no concurrent calls, no NFTMinter
\* and no browser session are under way.
HarnessIdle ==
    /\ factor = [num |-> 0, den |-> 0]
    /\ runs = <<>>
    /\ MinterIdle
    /\ SessionIdle

SliderIdle ==
    /\ before_img = NoImage
    /\ after_img = NoImage
    /\ slider_position = 0
    /\ composite = NoImage
    /\ outcome = "idle"

\* A caller holds a decoded upload and calls full_2d_to_3d_pipeline(image).
Init ==
    /\ image \in Inputs
    /\ pc = "start"
    /\ cleaned = NoImage
    /\ enhanced = NoImage
    /\ depth = NoImage
    /\ final_3d = NoImage
    /\ result = <<>>
    /\ rekeyed = NoImage
    /\ SliderIdle
    /\ HarnessIdle

\* The mutant of StepClean that keys the caller's image in place.
StepCleanInPlace ==
    /\ pc = "start"
    /\ cleaned' = remove_white_background(image)
    /\ image' = cleaned'
    /\ pc' = "cleaned"
    /\ UNCHANGED <<enhanced, depth, final_3d, result, rekeyed, sliderVars, harnessVars, minterVars, sessionVars>>

\* cleaned = remove_white_background(image)
StepClean ==
    /\ pc = "start"
    /\ cleaned' = remove_white_background(image)
    /\ pc' = "cleaned"
    /\ UNCHANGED <<image, enhanced, depth, final_3d, result, rekeyed, sliderVars, harnessVars, minterVars, sessionVars>>

\* enhanced = enhance_colors(cleaned)
StepEnhance ==
    /\ pc = "cleaned"
    /\ enhanced' = enhance_colors(cleaned)
    /\ pc' = "enhanced"
    /\ UNCHANGED <<image, cleaned, depth, final_3d, result, rekeyed, sliderVars, harnessVars, minterVars, sessionVars>>

\* The mutant of StepDepth that blurs the keyed instead of the enhanced image.
StepDepthOfCleaned ==
    /\ pc = "enhanced"
    /\ depth' = create_depth_map(cleaned)
    /\ pc' = "depth"
    /\ UNCHANGED <<image, cleaned, enhanced, final_3d, result, rekeyed, sliderVars, harnessVars, minterVars, sessionVars>>

\* depth = create_depth_map(enhanced)
StepDepth ==
    /\ pc = "enhanced"
    /\ depth' = create_depth_map(enhanced)
    /\ pc' = "depth"
    /\ UNCHANGED <<image, cleaned, enhanced, final_3d, result, rekeyed, sliderVars, harnessVars, minterVars, sessionVars>>

\* final_3d = create_3d_effect(enhanced)
StepEffect ==
    /\ pc = "depth"
    /\ final_3d' = create_3d_effect(enhanced)
    /\ pc' = "effect"
    /\ UNCHANGED <<image, cleaned, enhanced, depth, result, rekeyed, sliderVars, harnessVars, minterVars, sessionVars>>

\* return cleaned, depth, final_3d
Return ==
    /\ pc = "effect"
    /\ result' = <<cleaned, depth, final_3d>>
    /\ pc' = "done"
    /\ UNCHANGED <<image, cleaned, enhanced, depth, final_3d, rekeyed, sliderVars, harnessVars, minterVars, sessionVars>>

\* The caller passes the returned cleaned image to remove_white_background
\* once more.
Rekey ==
    /\ pc = "done"
    /\ rekeyed = NoImage
    /\ rekeyed' = remove_white_background(result[1])
    /\ UNCHANGED <<image, pc, cleaned, enhanced, depth, final_3d, result, sliderVars, harnessVars, minterVars, sessionVars>>

Next ==
    \/ StepClean
    \/ StepEnhance
    \/ StepDepth
    \/ StepEffect
    \/ Return
    \/ Rekey

Spec == Init /\ [][Next]_vars

---------------------------------------------------------------------------
(* create_before_after_comparison *)

\* The result of a PIL call that may raise: the image, or the exception.
Ok(im) == [raised |-> "none", im |-> im]
Raise(exc) == [raised |-> exc, im |-> NoImage]

\* after_img.resize(size): a copy when the size is unchanged, otherwise a
\* resampling; the model resamples by nearest neighbour.
resize(im, w, h) ==
    IF w = im.w /\ h = im.h THEN im
    ELSE [mode |-> im.mode, w |-> w, h |-> h,
          px |-> Evaluated([y \in 0 .. (h - 1) |-> [x \in 0 .. (w - 1) |->
                   im.px[((2 * y + 1) * im.h) \div (2 * h)][((2 * x + 1) * im.w) \div (2 * w)]]])]

\* Image.crop((left, upper, right, lower)): raises when right < left or
\* lower < upper; the region outside the image is filled with zeros.
crop(im, left, upper, right, lower) ==
    IF right < left \/ lower < upper THEN Raise("ValueError")
    ELSE Ok([mode |-> im.mode, w |-> right - left, h |-> lower - upper,
             px |-> Evaluated([y \in 0 .. (lower - upper - 1) |-> [x \in 0 .. (right - left - 1) |->
                      IF x + left \in Cols(im) /\ y + upper \in Rows(im)
                      THEN im.px[y + upper][x + left]
                      ELSE [k \in 1 .. Bands(im.mode) |-> 0]]])])

\* Image.new(mode, (w, h)) and Image.new(mode, (w, h), 0): all bands zero.
new(mode, w, h) ==
    [mode |-> mode, w |-> w, h |-> h,
     px |-> Evaluated([y \in 0 .. (h - 1) |-> [x \in 0 .. (w - 1) |-> [k \in 1 .. Bands(mode) |-> 0]]])]

\* The bands an image pasted into dst contributes: the image is converted
\* to dst's mode (an RGBA image pasted into RGB gives its R, G, B).
PasteSource(dst, src) == IF src.mode = dst.mode THEN src ELSE convert(src, dst.mode)

\* The mutant of MaskedBand in which a full mask keeps the pixel below.
MaskedBandInverted(below, above, m) ==
    IF m = 0 THEN above
    ELSE IF m = 255 THEN below
    ELSE (below * m + above * (255 - m) + 127) \div 255

\* One band of a paste through an "L" mask: 255 takes the pasted image,
\* 0 keeps the pixel below, values between blend.
MaskedBand(below, above, m) ==
    IF m = 0 THEN below
    ELSE IF m = 255 THEN above
    ELSE (above * m + below * (255 - m) + 127) \div 255

\* dst.paste(src, (x0, y0)) and dst.paste(src, (x0, y0), mask): the region
\* is src's size; a mask of another size than src is rejected ("images do
\* not match"); the part of the region inside dst is written.
paste(dst, src, x0, y0, mask) ==
    IF mask # NoImage /\ (mask.w # src.w \/ mask.h # src.h) THEN Raise("ValueError")
    ELSE LET s == PasteSource(dst, src)
         IN  Ok([mode |-> dst.mode, w |-> dst.w, h |-> dst.h,
                 px |-> Evaluated([y \in Rows(dst) |-> [x \in Cols(dst) |->
                          IF (x - x0) \in Cols(src) /\ (y - y0) \in Rows(src)
                          THEN IF mask = NoImage THEN s.px[y - y0][x - x0]
                               ELSE [k \in 1 .. Bands(dst.mode) |->
                                       MaskedBand(dst.px[y][x][k], s.px[y - y0][x - x0][k],
                                                  mask.px[y - y0][x - x0][1])]
                          ELSE dst.px[y][x]]])])

\* ImageDraw.Draw(im).rectangle([x0, y0, x1, y1], fill): both corners are
\* part of the rectangle, which is clipped to the image; raises when a
\* second coordinate is smaller than the first.
rectangle(im, x0, y0, x1, y1, fill) ==
    IF x1 < x0 \/ y1 < y0 THEN Raise("ValueError")
    ELSE Ok([mode |-> im.mode, w |-> im.w, h |-> im.h,
             px |-> Evaluated([y \in Rows(im) |-> [x \in Cols(im) |->
                      IF x0 <= x /\ x <= x1 /\ y0 <= y /\ y <= y1
                      THEN [k \in 1 .. Bands(im.mode) |-> fill]
                      ELSE im.px[y][x]]])])

\* The mutant of CompositeSize that takes the size of the "after" image.
CompositeSizeOfAfter(before, after) == <<after.w, after.h>>

\* w, h = before_img.size
CompositeSize(before, after) == <<before.w, before.h>>

\* The function, statement by statement; the first exception ends the call.
create_before_after_comparison(before, after, position) ==
    LET after_img_resized == resize(after, before.w, before.h)
        w        == CompositeSize(before, after)[1]
        h        == CompositeSize(before, after)[2]
        cropped  == crop(after_img_resized, 0, 0, position, h)
        pasted   == paste(new("RGB", w, h), before, 0, 0, NoImage)
        mask     == rectangle(new("L", w, h), 0, 0, position, h, 255)
        final    == paste(pasted.im, cropped.im, 0, 0, mask.im)
    IN  IF cropped.raised # "none" THEN cropped
        ELSE IF mask.raised # "none" THEN mask
        ELSE final

PipelineIdle ==
    /\ image = NoImage
    /\ pc = "idle"
    /\ cleaned = NoImage
    /\ enhanced = NoImage
    /\ depth = NoImage
    /\ final_3d = NoImage
    /\ result = <<>>
    /\ rekeyed = NoImage

\* The images a caller compares: a "before" and an "after" of independent
\* sizes and modes with different pixels.
SliderBefore ==
    { Gen(m, w, h, 1, 1, c) :
        m \in {"RGB", "RGBA"}, w \in 1 .. MaxW, h \in 1 .. MaxH, c \in 0 .. MaxShade }

SliderAfter ==
    { Gen(m, w, h, 1, 2, c + 3) :
        m \in {"RGB", "RGBA"}, w \in 1 .. MaxW, h \in 1 .. MaxH, c \in 0 .. MaxShade }

\* A caller holds two images and a slider position, in or out of range.
SliderInit ==
    /\ before_img \in SliderBefore
    /\ after_img \in SliderAfter
    /\ slider_position \in -1 .. (before_img.w + 1)
    /\ composite = NoImage
    /\ outcome = "pending"
    /\ PipelineIdle
    /\ HarnessIdle

\* create_before_after_comparison(before_img, after_img, slider_position)
Compare ==
    /\ outcome = "pending"
    /\ LET r == create_before_after_comparison(before_img, after_img, slider_position)
       IN  /\ outcome' = IF r.raised = "none" THEN "returned" ELSE r.raised
           /\ composite' = r.im
    /\ UNCHANGED <<before_img, after_img, slider_position, pipelineVars, harnessVars, minterVars, sessionVars>>

SliderNext == Compare

SliderSpec == SliderInit /\ [][SliderNext]_vars

---------------------------------------------------------------------------
(* The colour enhancer of enhance_colors, with the factor as an input *)

\* The factors 0, 0.5, 1, 1.5, ... as num/den.
Factors == { [num |-> n, den |-> 2] : n \in 0 .. MaxFactorHalves }

\* enhancer = ImageEnhance.Color(image) has been built for a decoded upload
\* and a factor is chosen for enhancer.enhance.
EnhancerInit ==
    /\ image \in Inputs
    /\ factor \in Factors
    /\ pc = "enhancer"
    /\ cleaned = NoImage
    /\ enhanced = NoImage
    /\ depth = NoImage
    /\ final_3d = NoImage
    /\ result = <<>>
    /\ rekeyed = NoImage
    /\ SliderIdle
    /\ runs = <<>>
    /\ MinterIdle
    /\ SessionIdle

\* enhanced = enhancer.enhance(factor)
Enhance ==
    /\ pc = "enhancer"
    /\ enhanced' = enhance(image, factor.num, factor.den)
    /\ pc' = "returned"
    /\ UNCHANGED <<image, cleaned, depth, final_3d, result, rekeyed, sliderVars, harnessVars, minterVars, sessionVars>>

EnhancerNext == Enhance

EnhancerSpec == EnhancerInit /\ [][EnhancerNext]_vars

---------------------------------------------------------------------------
(* full_2d_to_3d_pipeline called with an image of any size, empty ones too *)

\* The images with no pixels: PIL holds images of width or height 0
\* (Image.new(mode, (0, h))), and the pipeline takes any PIL image.
EmptyInputs ==
    { Gen(m, size[1], size[2], 0, 0, 0) :
        m \in {"RGB", "RGBA"},
        size \in { wh \in (0 .. MaxW) \X (0 .. MaxH) : wh[1] = 0 \/ wh[2] = 0 } }

\* full_2d_to_3d_pipeline has no check of its argument: its first statement
\* is the call of remove_white_background.
AnySizeInit ==
    /\ image \in Inputs \cup EmptyInputs
    /\ pc = "start"
    /\ cleaned = NoImage
    /\ enhanced = NoImage
    /\ depth = NoImage
    /\ final_3d = NoImage
    /\ result = <<>>
    /\ rekeyed = NoImage
    /\ SliderIdle
    /\ HarnessIdle

AnySizeSpec == AnySizeInit /\ [][Next]_vars

---------------------------------------------------------------------------
(* Two calls of full_2d_to_3d_pipeline under way at once *)

\* full_2d_to_3d_pipeline(image) as one function: the triple it returns.
full_2d_to_3d_pipeline(im) ==
    LET cleaned_  == remove_white_background(im)
        enhanced_ == enhance_colors(cleaned_)
        depth_    == create_depth_map(enhanced_)
        final_3d_ == create_3d_effect(enhanced_)
    IN  <<cleaned_, depth_, final_3d_>>

\* The two callers (threads of a batch).
Runs == {1, 2}

\* The uploads the concurrent callers hold: full-size images of both modes.
RunInputs ==
    { Gen(m, MaxW, MaxH, 1, 2, c) : m \in {"RGB", "RGBA"}, c \in 0 .. (Len(Palette) - 1) }

\* The frame of one call at its entry: the argument and the unset locals.
RunEntry(im) ==
    [image |-> im, pc |-> "start", cleaned |-> NoImage, enhanced |-> NoImage,
     depth |-> NoImage, final_3d |-> NoImage, result |-> <<>>]

ConcurrentInit ==
    /\ runs \in [Runs -> { RunEntry(im) : im \in RunInputs }]
    /\ factor = [num |-> 0, den |-> 0]
    /\ PipelineIdle
    /\ SliderIdle
    /\ MinterIdle
    /\ SessionIdle

\* cleaned = remove_white_background(image), in call i
RunClean(i) ==
    /\ runs[i].pc = "start"
    /\ runs' = [runs EXCEPT ![i].cleaned = remove_white_background(runs[i].image),
                            ![i].pc = "cleaned"]
    /\ UNCHANGED <<pipelineVars, sliderVars, factor, minterVars, sessionVars>>

\* The mutant of RunEnhance in which cleaned is shared between the calls:
\* it reads what the other call stored, when that call has stored it.
RunEnhanceShared(i) ==
    /\ runs[i].pc = "cleaned"
    /\ LET other  == CHOOSE j \in Runs : j # i
           shared == IF runs[other].cleaned # NoImage THEN runs[other].cleaned
                     ELSE runs[i].cleaned
       IN  runs' = [runs EXCEPT ![i].enhanced = enhance_colors(shared),
                                ![i].pc = "enhanced"]
    /\ UNCHANGED <<pipelineVars, sliderVars, factor, minterVars, sessionVars>>

\* enhanced = enhance_colors(cleaned), in call i
RunEnhance(i) ==
    /\ runs[i].pc = "cleaned"
    /\ runs' = [runs EXCEPT ![i].enhanced = enhance_colors(runs[i].cleaned),
                            ![i].pc = "enhanced"]
    /\ UNCHANGED <<pipelineVars, sliderVars, factor, minterVars, sessionVars>>

\* depth = create_depth_map(enhanced), in call i
RunDepth(i) ==
    /\ runs[i].pc = "enhanced"
    /\ runs' = [runs EXCEPT ![i].depth = create_depth_map(runs[i].enhanced),
                            ![i].pc = "depth"]
    /\ UNCHANGED <<pipelineVars, sliderVars, factor, minterVars, sessionVars>>

\* final_3d = create_3d_effect(enhanced), in call i
RunEffect(i) ==
    /\ runs[i].pc = "depth"
    /\ runs' = [runs EXCEPT ![i].final_3d = create_3d_effect(runs[i].enhanced),
                            ![i].pc = "effect"]
    /\ UNCHANGED <<pipelineVars, sliderVars, factor, minterVars, sessionVars>>

\* return cleaned, depth, final_3d, in call i
RunReturn(i) ==
    /\ runs[i].pc = "effect"
    /\ runs' = [runs EXCEPT ![i].result = <<runs[i].cleaned, runs[i].depth, runs[i].final_3d>>,
                            ![i].pc = "done"]
    /\ UNCHANGED <<pipelineVars, sliderVars, factor, minterVars, sessionVars>>

ConcurrentNext ==
    \E i \in Runs :
        \/ RunClean(i)
        \/ RunEnhance(i)
        \/ RunDepth(i)
        \/ RunEffect(i)
        \/ RunReturn(i)

ConcurrentSpec == ConcurrentInit /\ [][ConcurrentNext]_vars

---------------------------------------------------------------------------
(* full_2d_to_3d_pipeline called with an image wider than the blur reaches *)

\* The distance over which one blur reads: each of the BoxPasses passes
\* reads BoxRadius + 1 pixels to either side.
BlurReach == BoxPasses * (BoxRadius + 1)

\* Uploads of one row or one column whose two ends are further apart than
\* the blur reaches.
WideInputs ==
    { Gen(m, BlurReach + 1 + n, 1, a, 0, c) :
        m \in {"RGB", "RGBA"}, n \in 1 .. MaxW, a \in 0 .. MaxStride, c \in 0 .. (Len(Palette) - 1) }
    \cup
    { Gen(m, 1, BlurReach + 1 + n, 0, b, c) :
        m \in {"RGB", "RGBA"}, n \in 1 .. MaxH, b \in 0 .. MaxStride, c \in 0 .. (Len(Palette) - 1) }

WideInit ==
    /\ image \in WideInputs
    /\ pc = "start"
    /\ cleaned = NoImage
    /\ enhanced = NoImage
    /\ depth = NoImage
    /\ final_3d = NoImage
    /\ result = <<>>
    /\ rekeyed = NoImage
    /\ SliderIdle
    /\ HarnessIdle

WideSpec == WideInit /\ [][Next]_vars

---------------------------------------------------------------------------
(* NFTMinter of src/models/nft_mining.py: mint_nft, transfer_nft *)

\* The owner addresses: those of the mock data and one more caller.
Addresses == {"0xSIH2024User1", "0xSIH2024User2", "0x1234...5678"}

\* The token ids, as numbers: 1 and 2 stand for the ids of the mock data.
\* generate_token_id hashes a random uuid4, so it may draw any id.
TokenIds == 1 .. MaxTokenId

\* _load_mock_data: the two NFTs every NFTMinter starts with.
MockNfts ==
    << [token_id |-> 1, owner |-> "0xSIH2024User1"],
       [token_id |-> 2, owner |-> "0xSIH2024User2"] >>

\* The first of the positions at which a for loop's test holds, 0 if none:
\* the loops of transfer_nft and get_nft_by_token_id return at the first.
FirstIndex(hits) ==
    IF hits = {} THEN 0
    ELSE CHOOSE i \in hits : \A j \in hits : i <= j

\* self.minted_nfts.append(nft) with the generated token id
mint_nft(nfts, token_id, owner_address) ==
    Append(nfts, [token_id |-> token_id, owner |-> owner_address])

\* The mutant of transfer_nft that does not compare the owner.
transfer_nftAnyOwner(nfts, token_id, from_address, to_address) ==
    LET i == FirstIndex({ n \in 1 .. Len(nfts) : nfts[n].token_id = token_id })
    IN  IF i = 0 THEN [nfts |-> nfts, ret |-> FALSE]
        ELSE [nfts |-> [nfts EXCEPT ![i].owner = to_address], ret |-> TRUE]

\* The mutant of transfer_nft that joins the two comparisons with "or".
transfer_nftEither(nfts, token_id, from_address, to_address) ==
    LET i == FirstIndex({ n \in 1 .. Len(nfts) :
                            nfts[n].token_id = token_id \/ nfts[n].owner = from_address })
    IN  IF i = 0 THEN [nfts |-> nfts, ret |-> FALSE]
        ELSE [nfts |-> [nfts EXCEPT ![i].owner = to_address], ret |-> TRUE]

\* transfer_nft: the list afterwards and the value returned.
transfer_nft(nfts, token_id, from_address, to_address) ==
    LET i == FirstIndex({ n \in 1 .. Len(nfts) :
                            nfts[n].token_id = token_id /\ nfts[n].owner = from_address })
    IN  IF i = 0 THEN [nfts |-> nfts, ret |-> FALSE]
        ELSE [nfts |-> [nfts EXCEPT ![i].owner = to_address], ret |-> TRUE]

\* get_nft_by_token_id: the position of the NFT found, 0 for None.
get_nft_by_token_id(nfts, token_id) ==
    FirstIndex({ n \in 1 .. Len(nfts) : nfts[n].token_id = token_id })

verify_ownership(nfts, token_id, owner_address) ==
    LET i == get_nft_by_token_id(nfts, token_id)
    IN  i # 0 /\ nfts[i].owner = owner_address

\* NFTMinter(): the mock data is loaded; each mock NFT is held by its owner.
MinterInit ==
    /\ minted_nfts = MockNfts
    /\ nft_call = NoCall
    /\ nft_holder = [t \in TokenIds |->
                       IF \E i \in 1 .. Len(MockNfts) : MockNfts[i].token_id = t
                       THEN MockNfts[CHOOSE i \in 1 .. Len(MockNfts) : MockNfts[i].token_id = t].owner
                       ELSE "nobody"]
    /\ PipelineIdle
    /\ SliderIdle
    /\ factor = [num |-> 0, den |-> 0]
    /\ runs = <<>>
    /\ SessionIdle

\* minter.mint_nft(product_data, owner_address)
Mint ==
    /\ Len(minted_nfts) < Len(MockNfts) + MaxMints
    /\ \E token_id \in TokenIds, owner_address \in Addresses :
          /\ minted_nfts' = mint_nft(minted_nfts, token_id, owner_address)
          /\ nft_call' = [op |-> "mint_nft", token_id |-> token_id, from |-> "",
                          to |-> owner_address, ret |-> TRUE]
          /\ nft_holder' = [nft_holder EXCEPT ![token_id] = owner_address]
    /\ UNCHANGED <<pipelineVars, sliderVars, harnessVars, sessionVars>>

\* minter.transfer_nft(token_id, from_address, to_address)
Transfer ==
    /\ \E token_id \in TokenIds, from_address \in Addresses, to_address \in Addresses :
          LET done == transfer_nft(minted_nfts, token_id, from_address, to_address)
          IN  /\ minted_nfts' = done.nfts
              /\ nft_call' = [op |-> "transfer_nft", token_id |-> token_id, from |-> from_address,
                              to |-> to_address, ret |-> done.ret]
              /\ nft_holder' = IF done.ret THEN [nft_holder EXCEPT ![token_id] = to_address]
                               ELSE nft_holder
    /\ UNCHANGED <<pipelineVars, sliderVars, harnessVars, sessionVars>>

MinterNext ==
    \/ Mint
    \/ Transfer

MinterSpec == MinterInit /\ [][MinterNext]_vars

---------------------------------------------------------------------------
(* The Streamlit session of src/app.py: one action per statement of a run *)

\* data.products.PRODUCTS (prices in hundredths).
PRODUCTS ==
    << [id |-> 1, name |-> "Ant Man", price_usd |-> 4999, price_inr |-> 414917,
        category |-> "fit", icon |-> "coat", water_saved |-> 3000, co2_saved |-> 20,
        description |-> "SUPERHERO for AR filters", badge |-> "new", rating |-> 48] >>

\* The pages list of render_sidebar.
SidebarPages ==
    << "Home", "Marketplace", "AR Studio", "Sustainability", "2D to 3D",
       "Profile", "Wishlist", "Analytics", "Settings" >>

\* The mutant of Branches that has lost the branch of the Settings page.
BranchesWithoutSettings ==
    << [page |-> "Home", renderer |-> "show_home"],
       [page |-> "Marketplace", renderer |-> "show_marketplace"],
       [page |-> "AR Studio", renderer |-> "show_ar_studio"],
       [page |-> "Sustainability", renderer |-> "show_sustainability"],
       [page |-> "2D to 3D", renderer |-> "show_converter"],
       [page |-> "Profile", renderer |-> "show_profile"],
       [page |-> "Wishlist", renderer |-> "show_wishlist"],
       [page |-> "Analytics", renderer |-> "show_analytics"] >>

\* The if/elif chain of app.py: the page compared and the renderer called.
Branches ==
    << [page |-> "Home", renderer |-> "show_home"],
       [page |-> "Marketplace", renderer |-> "show_marketplace"],
       [page |-> "AR Studio", renderer |-> "show_ar_studio"],
       [page |-> "Sustainability", renderer |-> "show_sustainability"],
       [page |-> "2D to 3D", renderer |-> "show_converter"],
       [page |-> "Profile", renderer |-> "show_profile"],
       [page |-> "Wishlist", renderer |-> "show_wishlist"],
       [page |-> "Analytics", renderer |-> "show_analytics"],
       [page |-> "Settings", renderer |-> "show_settings"] >>

\* st.session_state.key = value
Assign(state, key, value) ==
    [k \in DOMAIN state \cup {key} |-> IF k = key THEN value ELSE state[k]]

\* if key not in st.session_state: st.session_state.key = value
AssignIfAbsent(state, key, value) ==
    IF key \in DOMAIN state THEN state ELSE Assign(state, key, value)

\* The values init_session stores (the user and impact dictionaries by name).
DefaultUser == [name |-> "Demo User", email |-> "demo@digitalfashion.com",
                wallet |-> "0x1234...5678", member_since |-> "2024-01-15", currency |-> "INR"]
DefaultImpact == [items |-> 0, water_saved |-> 0, co2_saved |-> 0, level |-> 1, points |-> 250]

\* A browser opens the app: the script starts on an empty session state.
SessionInit ==
    /\ session = <<>>
    /\ spc = "init_user"
    /\ clicked = "none"
    /\ widgets = {}
    /\ shown = "none"
    /\ run_error = "none"
    /\ PipelineIdle
    /\ SliderIdle
    /\ factor = [num |-> 0, den |-> 0]
    /\ runs = <<>>
    /\ MinterIdle

\* One "if key not in st.session_state" statement of init_session.
InitKey(at, key, value, next) ==
    /\ spc = at
    /\ session' = AssignIfAbsent(session, key, value)
    /\ spc' = next
    /\ UNCHANGED <<clicked, widgets, shown, run_error, pipelineVars, sliderVars, harnessVars, minterVars>>

InitUser == InitKey("init_user", "user", DefaultUser, "init_cart")

InitCart == InitKey("init_cart", "cart", <<>>, "init_impact")

InitImpact == InitKey("init_impact", "impact", DefaultImpact, "init_nfts")

InitNfts == InitKey("init_nfts", "nfts", <<>>, "init_current_page")

\* The mutant of InitCurrentPage that assigns "Home" on every run.
InitCurrentPageAlways ==
    /\ spc = "init_current_page"
    /\ session' = Assign(session, "current_page", "Home")
    /\ spc' = "init_wishlist"
    /\ UNCHANGED <<clicked, widgets, shown, run_error, pipelineVars, sliderVars, harnessVars, minterVars>>

InitCurrentPage == InitKey("init_current_page", "current_page", "Home", "init_wishlist")

InitWishlist == InitKey("init_wishlist", "wishlist", <<>>, "render_sidebar")

\* The set of the elements of a sequence.
Range(seq) == { seq[i] : i \in 1 .. Len(seq) }

\* render_sidebar: the nine buttons; the one clicked stores its page and
\* st.rerun() restarts the script, now with no button clicked.
RenderSidebar ==
    /\ spc = "render_sidebar"
    /\ IF clicked \in Range(SidebarPages)
       THEN /\ session' = Assign(session, "current_page", clicked)
            /\ spc' = "init_user"
            /\ clicked' = "none"
            /\ widgets' = {}
       ELSE /\ widgets' = widgets \cup Range(SidebarPages)
            /\ spc' = "dispatch"
            /\ UNCHANGED <<session, clicked>>
    /\ UNCHANGED <<shown, run_error, pipelineVars, sliderVars, harnessVars, minterVars>>

\* page = st.session_state.current_page and the if/elif chain: the first
\* branch whose page equals it calls its renderer; with none, no page.
Dispatch ==
    /\ spc = "dispatch"
    /\ LET page == session["current_page"]
           first == FirstIndex({ i \in 1 .. Len(Branches) : Branches[i].page = page })
       IN  IF first # 0
           THEN shown' = Branches[first].renderer /\ spc' = "page"
           ELSE shown' = "none" /\ spc' = "render_footer"
    /\ UNCHANGED <<session, clicked, widgets, run_error, pipelineVars, sliderVars, harnessVars, minterVars>>

\* What a page renderer leaves: the session state, the buttons drawn and
\* the exception raised ("none" when it returned).
Rendered(state, drawn, error) == [session |-> state, widgets |-> drawn, error |-> error]

\* A renderer has run: the script goes on to the footer, or stops at the
\* exception (Streamlit shows it and waits for the next interaction).
PageDone(renderer, out) ==
    /\ spc = "page"
    /\ shown = renderer
    /\ session' = out.session
    /\ widgets' = out.widgets
    /\ run_error' = out.error
    /\ spc' = IF out.error = "none" THEN "render_footer" ELSE "idle"
    /\ UNCHANGED <<clicked, shown, pipelineVars, sliderVars, harnessVars, minterVars>>

\* show_home is not among the sources: taken to touch no session key.
ShowHome == PageDone("show_home", Rendered(session, widgets, "none"))

\* show_converter is not among the sources: taken to touch no session key.
ShowConverter == PageDone("show_converter", Rendered(session, widgets, "none"))

\* show_ar_studio: an uploader and a preview, no session key.
ShowArStudio == PageDone("show_ar_studio", Rendered(session, widgets, "none"))

\* show_sustainability: text only.
ShowSustainability == PageDone("show_sustainability", Rendered(session, widgets, "none"))

\* Reading st.session_state.key raises AttributeError when the key is absent.
Missing(state, keys) == \E k \in keys : k \notin DOMAIN state

show_wishlist(state, drawn) ==
    IF Missing(state, {"wishlist"}) THEN Rendered(state, drawn, "AttributeError")
    ELSE Rendered(state, drawn, "none")

ShowWishlist == PageDone("show_wishlist", show_wishlist(session, widgets))

show_analytics(state, drawn) ==
    IF Missing(state, {"cart", "wishlist"}) THEN Rendered(state, drawn, "AttributeError")
    ELSE Rendered(state, drawn, "none")

ShowAnalytics == PageDone("show_analytics", show_analytics(session, widgets))

\* show_settings: the two buttons; the one clicked empties its list.
show_settings(state, drawn, button) ==
    LET cleared == IF button = "Clear Cart" THEN Assign(state, "cart", <<>>) ELSE state
        reset   == IF button = "Reset Wishlist" THEN Assign(cleared, "wishlist", <<>>) ELSE cleared
    IN  Rendered(reset, drawn \cup {"Clear Cart", "Reset Wishlist"}, "none")

ShowSettings == PageDone("show_settings", show_settings(session, widgets, clicked))

\* show_profile: the text input reads st.session_state.username; Save
\* stores the text (unchanged unless typed over).
show_profile(state, drawn, button) ==
    IF Missing(state, {"username"}) THEN Rendered(state, drawn, "AttributeError")
    ELSE Rendered(IF button = "Save" THEN Assign(state, "username", state["username"]) ELSE state,
                  drawn \cup {"Save"}, "none")

ShowProfile == PageDone("show_profile", show_profile(session, widgets, clicked))

\* utils.nft.mint_nft(product, user_id): reads product['name'], ['icon'] and
\* ['id'] (a TypeError when product is a str) and appends the NFT to
\* st.session_state.nfts.  arg holds the fields the argument has.
nft_mint_nft(state, arg, user_id) ==
    IF ~({"name", "icon", "id"} \subseteq DOMAIN arg) THEN Rendered(state, {}, "TypeError")
    ELSE IF Missing(state, {"nfts"}) THEN Rendered(state, {}, "AttributeError")
    ELSE Rendered(Assign(state, "nfts",
                         Append(state["nfts"], [product_id |-> arg.id, owner |-> user_id])),
                  {}, "none")

RECURSIVE ShowProducts(_, _, _)
\* The for loop of show_marketplace from product i on, then the cart.
ShowProducts(i, out, button) ==
    IF out.error # "none" THEN out
    ELSE IF i > Len(PRODUCTS)
    THEN \* st.session_state.cart, and item["price"] of every item in it
         IF Missing(out.session, {"cart"}) THEN [out EXCEPT !.error = "AttributeError"]
         ELSE IF \E n \in 1 .. Len(out.session["cart"]) : "price" \notin DOMAIN out.session["cart"][n]
         THEN [out EXCEPT !.error = "KeyError"]
         ELSE out
    ELSE LET product == PRODUCTS[i]
             add     == "Add to Cart " \o ToString(product.id)
             mint    == "Mint NFT " \o ToString(product.id)
             priced  == IF "price" \notin DOMAIN product THEN [out EXCEPT !.error = "KeyError"] ELSE out
             added   == IF priced.error # "none" THEN priced
                        ELSE IF button # add THEN [priced EXCEPT !.widgets = @ \cup {add}]
                        ELSE IF Missing(priced.session, {"cart"}) THEN [priced EXCEPT !.error = "AttributeError"]
                        ELSE [priced EXCEPT !.widgets = @ \cup {add},
                                            !.session = Assign(@, "cart", Append(@["cart"], product))]
             minted  == IF added.error # "none" THEN added
                        ELSE IF button # mint THEN [added EXCEPT !.widgets = @ \cup {mint}]
                        ELSE IF Missing(added.session, {"username"}) THEN [added EXCEPT !.error = "AttributeError"]
                        ELSE LET done == nft_mint_nft(added.session, [str |-> product.name],
                                                      added.session["username"])
                             IN  [added EXCEPT !.widgets = @ \cup {mint},
                                               !.session = done.session, !.error = done.error]
         IN  ShowProducts(i + 1, minted, button)

show_marketplace(state, drawn, button) == ShowProducts(1, Rendered(state, drawn, "none"), button)

ShowMarketplace == PageDone("show_marketplace", show_marketplace(session, widgets, clicked))

\* render_footer is not among the sources: taken to touch no session key.
\* The run is over and the page waits for a click.
RenderFooter ==
    /\ spc = "render_footer"
    /\ spc' = "idle"
    /\ UNCHANGED <<session, clicked, widgets, shown, run_error, pipelineVars, sliderVars, harnessVars, minterVars>>

\* The user clicks a button the page shows: Streamlit runs the script again
\* on the same session state, with that button reporting the click.
Click ==
    /\ spc = "idle"
    /\ \E button \in widgets : clicked' = button
    /\ spc' = "init_user"
    /\ widgets' = {}
    /\ shown' = "none"
    /\ run_error' = "none"
    /\ UNCHANGED <<session, pipelineVars, sliderVars, harnessVars, minterVars>>

SessionNext ==
    \/ InitUser \/ InitCart \/ InitImpact \/ InitNfts \/ InitCurrentPage \/ InitWishlist
    \/ RenderSidebar
    \/ Dispatch
    \/ ShowHome \/ ShowMarketplace \/ ShowArStudio \/ ShowSustainability \/ ShowConverter
    \/ ShowProfile \/ ShowWishlist \/ ShowAnalytics \/ ShowSettings
    \/ RenderFooter
    \/ Click

SessionSpec == SessionInit /\ [][SessionNext]_vars

---------------------------------------------------------------------------
(* Every stage: a call of the pipeline or a call of the slider composite *)

StagesInit == Init \/ SliderInit

StagesNext == Next \/ SliderNext

StagesSpec == StagesInit /\ [][StagesNext]_vars

---------------------------------------------------------------------------
(* Properties of full_2d_to_3d_pipeline and its stages, under Spec. *)

\* Pixel (x, y) of an image as (R, G, B, A), alpha 255 when the mode has none.
RGBAOf(im, x, y) ==
    IF im.mode = "RGB" THEN Append(im.px[y][x], 255) ELSE im.px[y][x]

\* Pixel (x, y) of an image as (R, G, B).
RGBOf(im, x, y) == SubSeq(im.px[y][x], 1, 3)

\* The image has w columns and h rows of pixels of its mode.
WellFormed(im, w, h) ==
    /\ im.w = w
    /\ im.h = h
    /\ DOMAIN im.px = 0 .. (h - 1)
    /\ \A y \in 0 .. (h - 1) :
         /\ DOMAIN im.px[y] = 0 .. (w - 1)
         /\ \A x \in 0 .. (w - 1) : Len(im.px[y][x]) = Bands(im.mode)

\* C1: remove_white_background outputs (0,0,0,0) at every pixel whose R, G
\* and B all exceed 240 and the input pixel, alpha included, at every other
\* pixel; the comparison is strict, so 240 is kept and 241 is keyed.
C1_KeyingPerPixel ==
    pc # "start" =>
        /\ cleaned.mode = "RGBA"
        /\ \A y \in Rows(image) : \A x \in Cols(image) :
             LET p == RGBAOf(image, x, y)
             IN  cleaned.px[y][x] =
                   IF p[1] > 240 /\ p[2] > 240 /\ p[3] > 240 THEN <<0, 0, 0, 0>> ELSE p

\* C1 witness: a keyed image holding a pixel that was keyed out of white
\* with a partial alpha and a pixel at exactly (240,240,240) that was kept.
C1_Witness ==
    /\ pc # "start"
    /\ \E y \in Rows(image) : \E x \in Cols(image) :
         /\ RGBAOf(image, x, y) = <<241, 241, 241, 128>>
         /\ cleaned.px[y][x] = <<0, 0, 0, 0>>
    /\ \E y \in Rows(image) : \E x \in Cols(image) :
         /\ RGBAOf(image, x, y) = <<240, 240, 240, 255>>
         /\ cleaned.px[y][x] = <<240, 240, 240, 255>>

\* C2: the pipeline runs keying, enhancement, depth and 3D effect in that
\* order, each stage exactly once and on the stated input (depth and
\* final_3d both on the enhanced image), and returns (cleaned, depth,
\* final_3d) with cleaned the keyed image.
C2_StageOrder ==
    /\ pc \in {"start", "cleaned", "enhanced", "depth", "effect", "done"}
    /\ (cleaned = NoImage) = (pc = "start")
    /\ (enhanced = NoImage) = (pc \in {"start", "cleaned"})
    /\ (depth = NoImage) = (pc \in {"start", "cleaned", "enhanced"})
    /\ (final_3d = NoImage) = (pc \in {"start", "cleaned", "enhanced", "depth"})
    /\ (result = <<>>) = (pc # "done")
    /\ cleaned # NoImage => cleaned = remove_white_background(image)
    /\ enhanced # NoImage => enhanced = enhance_colors(remove_white_background(image))
    /\ depth # NoImage => depth = create_depth_map(enhanced)
    /\ final_3d # NoImage => final_3d = create_3d_effect(enhanced)
    /\ pc = "done" =>
         result = <<remove_white_background(image), create_depth_map(enhanced),
                    create_3d_effect(enhanced)>>

\* C2 witness: a finished run in which the keyed and the enhanced image
\* differ, and so do the depth map and the 3D effect of the two.
C2_Witness ==
    /\ pc = "done"
    /\ result[1] # enhanced
    /\ result[2] # create_depth_map(cleaned)
    /\ result[3] # create_3d_effect(cleaned)

\* C7: keying an already keyed image changes nothing:
\* remove_white_background(remove_white_background(I)) = remove_white_background(I).
C7_KeyingIdempotent ==
    rekeyed # NoImage => rekeyed = cleaned

\* C7 witness: the second keying has run on an image the first keying
\* changed.
C7_Witness ==
    /\ rekeyed # NoImage
    /\ \E y \in Rows(image) : \E x \in Cols(image) :
         /\ cleaned.px[y][x] = <<0, 0, 0, 0>>
         /\ RGBAOf(image, x, y) # <<0, 0, 0, 0>>

\* C9: every stage's output has the width and height of its input, so the
\* three returned images have the size of the source image.
C9_DimensionsPreserved ==
    /\ cleaned # NoImage => WellFormed(cleaned, image.w, image.h)
    /\ enhanced # NoImage => WellFormed(enhanced, cleaned.w, cleaned.h)
    /\ depth # NoImage => WellFormed(depth, enhanced.w, enhanced.h)
    /\ final_3d # NoImage => WellFormed(final_3d, enhanced.w, enhanced.h)
    /\ pc = "done" => \A i \in 1 .. 3 : WellFormed(result[i], image.w, image.h)

\* C9 witness: a finished run on an image that is not square.
C9_Witness ==
    /\ pc = "done"
    /\ image.w # image.h
    /\ result[2].w = image.w /\ result[2].h = image.h

---------------------------------------------------------------------------
(* Properties of create_before_after_comparison, under SliderSpec. *)

SameSize == before_img.w = after_img.w /\ before_img.h = after_img.h

C4_MaskedComposite ==
    (outcome # "pending" /\ 0 <= slider_position /\ slider_position <= before_img.w) =>
        /\ outcome = "returned"
        /\ LET a == resize(after_img, before_img.w, before_img.h)
           IN  \A y \in Rows(before_img) : \A x \in Cols(before_img) :
                 composite.px[y][x] =
                   IF x < slider_position THEN RGBOf(a, x, y) ELSE RGBOf(before_img, x, y)

\* C5, as stated: for same-size images, split_x = 0 returns before and
\* split_x = width returns after, and neither call fails.
C5_SliderBoundaries ==
    (outcome # "pending" /\ SameSize) =>
        /\ slider_position = 0 =>
             /\ outcome = "returned"
             /\ \A y \in Rows(before_img) : \A x \in Cols(before_img) :
                  composite.px[y][x] = RGBOf(before_img, x, y)
        /\ slider_position = before_img.w =>
             /\ outcome = "returned"
             /\ \A y \in Rows(before_img) : \A x \in Cols(before_img) :
                  composite.px[y][x] = RGBOf(after_img, x, y)

\* C6, as stated: the call fails with an error and no image when split_x is
\* negative or exceeds the width, and returns an image for every split_x
\* in 0..width.
C6_InvalidSplitRejected ==
    outcome # "pending" =>
        IF slider_position < 0 \/ slider_position > before_img.w
        THEN outcome = "ValueError" /\ composite = NoImage
        ELSE outcome = "returned" /\ composite # NoImage

\* C10: the returned image has before's width and height, whatever the
\* size of after.
C10_OutputHasBeforeSize ==
    outcome = "returned" => WellFormed(composite, before_img.w, before_img.h)

\* C10 witness: a call has returned for an after image that is smaller in
\* one direction and larger in the other than before.
C10_Witness ==
    /\ outcome = "returned"
    /\ after_img.w < before_img.w
    /\ after_img.h > before_img.h
    /\ composite.w = before_img.w /\ composite.h = before_img.h

---------------------------------------------------------------------------
(* Properties of the colour enhancer, under EnhancerSpec. *)

\* 1000 times the luminance 0.299 R + 0.587 G + 0.114 B of a pixel.
Luminance1000(p) == 299 * p[1] + 587 * p[2] + 114 * p[3]

\* v is the luminance of p as an 8-bit value: within one grey level of the
\* exact weighted sum.
IsLuminance(v, p) ==
    /\ v \in 0 .. 255
    /\ 1000 * v - Luminance1000(p) < 1000
    /\ Luminance1000(p) - 1000 * v < 1000

---------------------------------------------------------------------------
(* Properties of enhance_colors inside the pipeline, under Spec. *)

\* clamp(v, 0, hi)
Clamp(v, hi) == IF v < 0 THEN 0 ELSE IF v > hi THEN hi ELSE v

\* C13: enhance_colors applies the factor 1.5: with Y the 8-bit luminance of
\* a pixel, each of R, G, B of the output is clamp(Y + (channel - Y) * 1.5,
\* 0, 255) stored as an 8-bit value (the fraction dropped); a value outside
\* [0,255] becomes the nearest bound, never its residue modulo 256.
C13_FactorOneAndAHalfClamped ==
    enhanced # NoImage =>
        \A y \in Rows(cleaned), x \in Cols(cleaned) : \A k \in 1 .. 3 :
            LET p       == cleaned.px[y][x]
                Y       == Luma(p)
                twice   == 2 * Y + 3 * (p[k] - Y)   \* 2 * (Y + (channel - Y) * 1.5)
                clamped == Clamp(twice, 510)
                out     == enhanced.px[y][x][k]
            IN  /\ IsLuminance(Y, p)
                /\ out \in 0 .. 255
                /\ 2 * out <= clamped /\ clamped <= 2 * out + 1
                /\ twice < 0 => out = 0
                /\ twice > 510 => out = 255

\* Some channel is clamped at 255, another at 0, and in both the residue
\* modulo 256 of the unclamped value would have been a different value.
C13_Witness ==
    /\ enhanced # NoImage
    /\ \E y \in Rows(cleaned), x \in Cols(cleaned) : \E k \in 1 .. 3 :
          LET p == cleaned.px[y][x]
              t == 2 * Luma(p) + 3 * (p[k] - Luma(p))
          IN  t > 510 /\ (t \div 2) % 256 # 255 /\ enhanced.px[y][x][k] = 255
    /\ \E y \in Rows(cleaned), x \in Cols(cleaned) : \E k \in 1 .. 3 :
          LET p == cleaned.px[y][x]
              t == 2 * Luma(p) + 3 * (p[k] - Luma(p))
          IN  t < 0 /\ (t \div 2) % 256 # 0 /\ enhanced.px[y][x][k] = 0

\* C14: enhance_colors leaves the alpha of every pixel unchanged; a pixel
\* keyed out to (0,0,0,0) is still (0,0,0,0) in the enhanced image.
C14_AlphaUnchanged ==
    enhanced # NoImage =>
        /\ enhanced.mode = "RGBA" /\ enhanced.w = cleaned.w /\ enhanced.h = cleaned.h
        /\ \A y \in Rows(cleaned), x \in Cols(cleaned) :
              /\ enhanced.px[y][x][4] = cleaned.px[y][x][4]
              /\ cleaned.px[y][x] = <<0, 0, 0, 0>> => enhanced.px[y][x] = <<0, 0, 0, 0>>

\* A keyed pixel and a translucent coloured pixel pass through enhance_colors.
C14_Witness ==
    /\ enhanced # NoImage
    /\ \E y \in Rows(cleaned), x \in Cols(cleaned) :
          /\ IsWhite(image.px[y][x][1], image.px[y][x][2], image.px[y][x][3])
          /\ enhanced.px[y][x] = <<0, 0, 0, 0>>
    /\ \E y \in Rows(cleaned), x \in Cols(cleaned) :
          /\ cleaned.px[y][x][4] \notin {0, 255}
          /\ enhanced.px[y][x][4] = cleaned.px[y][x][4]
          /\ RGBOf(enhanced, x, y) # RGBOf(cleaned, x, y)

---------------------------------------------------------------------------
(* Properties of all stages, under StagesSpec. *)

---------------------------------------------------------------------------
(* Properties of the pipeline on images of any size, under AnySizeSpec. *)

\* C16: an image whose width or height is zero makes the stage fail at its
\* boundary: no stage of the pipeline produces an image from it and the
\* pipeline returns nothing.
C16_ZeroSizeRejected ==
    (image.w = 0 \/ image.h = 0) =>
        /\ cleaned = NoImage
        /\ enhanced = NoImage
        /\ depth = NoImage
        /\ final_3d = NoImage
        /\ result = <<>>

---------------------------------------------------------------------------
(* Properties of concurrent pipeline calls, under ConcurrentSpec. *)

\* C17: when two calls of full_2d_to_3d_pipeline on independent images are
\* interleaved statement by statement in any order, each call returns the
\* triple it returns when run alone.
C17_InterleavedRunsIndependent ==
    \A i \in Runs :
        runs # <<>> /\ runs[i].pc = "done" =>
            runs[i].result = full_2d_to_3d_pipeline(runs[i].image)

\* Call 1 has returned while call 2, on another image with another result,
\* is between two of its statements.
C17_Witness ==
    /\ runs # <<>>
    /\ runs[1].pc = "done"
    /\ runs[2].pc \in {"cleaned", "enhanced", "depth"}
    /\ runs[1].image # runs[2].image
    /\ runs[1].result[1] # runs[2].cleaned
    /\ runs[1].result = full_2d_to_3d_pipeline(runs[1].image)

---------------------------------------------------------------------------
(* Properties of create_3d_effect and create_depth_map, under Spec. *)

\* C18: create_3d_effect blends the emboss-filtered and the edge-detected
\* versions of its input with equal weight: every channel of every output
\* pixel is emboss*0.5 + edges*0.5 as an 8-bit value in [0,255] (the
\* fraction dropped), and the output has the size and bands of the input.
C18_EqualWeightBlend ==
    final_3d # NoImage =>
        LET embossed == filter(enhanced, EMBOSS)
            edges    == filter(enhanced, FIND_EDGES)
        IN  /\ final_3d.mode = enhanced.mode
            /\ final_3d.w = enhanced.w /\ final_3d.h = enhanced.h
            /\ \A y \in Rows(enhanced), x \in Cols(enhanced) :
                  /\ Len(final_3d.px[y][x]) = Len(enhanced.px[y][x])
                  /\ \A k \in 1 .. Bands(enhanced.mode) :
                        LET out == final_3d.px[y][x][k]
                            sum == embossed.px[y][x][k] + edges.px[y][x][k]
                        IN  /\ out \in 0 .. 255
                            /\ 2 * out <= sum /\ sum <= 2 * out + 1

\* An output channel lies strictly between differing emboss and edge values.
C18_Witness ==
    /\ final_3d # NoImage
    /\ \E y \in Rows(enhanced), x \in Cols(enhanced) : \E k \in 1 .. 3 :
          LET e == filter(enhanced, EMBOSS).px[y][x][k]
              g == filter(enhanced, FIND_EDGES).px[y][x][k]
          IN  /\ e > g + 2
              /\ final_3d.px[y][x][k] = (e + g) \div 2
              /\ final_3d.px[y][x][k] \notin {e, g}

\* image.filter(f) with the band extended by its edge pixels.
filterReplicate(im, f) ==
    merge(im.mode, im.w, im.h,
          [k \in 1 .. Bands(im.mode) |-> Filter3x3Replicate(getchannel(im, k), im.w, im.h, f)])

\* The pixels the 3x3 kernel does not reach: the first and last row and
\* column, and every pixel of an image narrower or lower than the kernel.
OnBorder(im, x, y) ==
    \/ im.w < 3 \/ im.h < 3
    \/ x = 0 \/ y = 0 \/ x = im.w - 1 \/ y = im.h - 1

\* C19 as claimed: the emboss and edge-detect convolutions extend the image
\* by its edge pixels, so every pixel of the result, on the border too, is
\* the blend of the two kernels applied to the extended image.
C19_ReplicateEdgeConvolution ==
    final_3d # NoImage =>
        final_3d = blend(filterReplicate(enhanced, EMBOSS),
                         filterReplicate(enhanced, FIND_EDGES), 1, 2)

\* C19 as amended: the convolutions do not extend the image.  A pixel the
\* kernel does not reach is copied from the input by both filters, so the
\* result has the input's pixel there; every other pixel is the blend of
\* the two kernels applied to its in-image neighbourhood.
C19_BorderCopiedFromInput ==
    final_3d # NoImage =>
        LET kernels == blend(filterReplicate(enhanced, EMBOSS),
                             filterReplicate(enhanced, FIND_EDGES), 1, 2)
        IN  \A y \in Rows(enhanced), x \in Cols(enhanced) :
                final_3d.px[y][x] = IF OnBorder(enhanced, x, y) THEN enhanced.px[y][x]
                                    ELSE kernels.px[y][x]

\* A border pixel of the result is the input's pixel where the kernels on
\* the extended image would give another value, next to an interior pixel
\* the kernels changed.
C19_Witness ==
    /\ final_3d # NoImage
    /\ enhanced.w >= 3 /\ enhanced.h >= 3
    /\ final_3d.px[0][0] = enhanced.px[0][0]
    /\ final_3d.px[0][0] # blend(filterReplicate(enhanced, EMBOSS),
                                 filterReplicate(enhanced, FIND_EDGES), 1, 2).px[0][0]
    /\ final_3d.px[1][1] # enhanced.px[1][1]

\* C20: create_depth_map returns a single-channel image of the input's
\* dimensions: the luminance Y = 0.299R + 0.587G + 0.114B of each pixel as
\* an 8-bit value, alpha ignored, blurred with radius 5; every output value
\* lies in [0,255], within the range of the luminances blurred.
C20_DepthIsBlurredLuminance ==
    depth # NoImage =>
        LET Y == [y \in Rows(enhanced) |-> [x \in Cols(enhanced) |-> Luma(enhanced.px[y][x])]]
            S == { Luminance1000(enhanced.px[y][x]) : y \in Rows(enhanced), x \in Cols(enhanced) }
        IN  /\ depth.mode = "L"
            /\ depth.w = enhanced.w /\ depth.h = enhanced.h
            /\ \A y \in Rows(enhanced), x \in Cols(enhanced) :
                  /\ IsLuminance(Y[y][x], enhanced.px[y][x])
                  /\ Len(depth.px[y][x]) = 1
                  /\ depth.px[y][x][1] \in 0 .. 255
                  /\ \E lo \in S : lo - 1000 < 1000 * depth.px[y][x][1]
                  /\ \E hi \in S : 1000 * depth.px[y][x][1] < hi + 1000
            /\ getchannel(depth, 1) = GaussianBlur5(Y, enhanced.w, enhanced.h)
            /\ depth = create_depth_map(convert(enhanced, "RGB"))

\* The input has pixels of different luminance and a translucent pixel, and
\* the blur moved a pixel away from its own luminance.
C20_Witness ==
    /\ depth # NoImage
    /\ \E y \in Rows(enhanced), x \in Cols(enhanced) :
          /\ enhanced.px[y][x][4] \notin {0, 255}
          /\ enhanced.px[y][x][1] # enhanced.px[y][x][2]
    /\ \E y \in Rows(enhanced), x \in Cols(enhanced) :
          /\ depth.px[y][x][1] # Luma(enhanced.px[y][x])
          /\ depth.px[y][x][1] # enhanced.px[y][x][1]

---------------------------------------------------------------------------
(* Properties of the blur of create_depth_map, under WideSpec. *)

\* The image im with the pixel in column x of row y replaced by p.
WithPixel(im, x, y, p) ==
    [im EXCEPT !.px = [im.px EXCEPT ![y] = [im.px[y] EXCEPT ![x] = p]]]

\* C21: the blur of create_depth_map extends the image by its nearest edge
\* pixel and never wraps around: the depth at one end of the image is the
\* same whatever the pixel at the opposite end is, and the depth map of an
\* image of one luminance is uniformly that luminance.
C21_BlurReplicatesEdges ==
    depth # NoImage =>
        LET xl == enhanced.w - 1
            yl == enhanced.h - 1
        IN  /\ \A i \in 1 .. Len(Palette) :
                  /\ create_depth_map(WithPixel(enhanced, xl, yl, Palette[i])).px[0][0] = depth.px[0][0]
                  /\ create_depth_map(WithPixel(enhanced, 0, 0, Palette[i])).px[yl][xl] = depth.px[yl][xl]
            /\ (\A y \in Rows(enhanced), x \in Cols(enhanced) :
                    Luma(enhanced.px[y][x]) = Luma(enhanced.px[0][0]))
                => \A y \in Rows(enhanced), x \in Cols(enhanced) :
                      /\ depth.px[y][x] = <<Luma(enhanced.px[0][0])>>
                      /\ IsLuminance(depth.px[y][x][1], enhanced.px[y][x])

\* The two ends of the image differ in luminance and so do their depths;
\* another pixel at the far end changes the depth near that end.
C21_Witness ==
    /\ depth # NoImage
    /\ LET xl == enhanced.w - 1
           yl == enhanced.h - 1
       IN  /\ Luma(enhanced.px[0][0]) # Luma(enhanced.px[yl][xl])
           /\ depth.px[0][0] # depth.px[yl][xl]
           /\ \E i \in 1 .. Len(Palette) :
                 create_depth_map(WithPixel(enhanced, xl, yl, Palette[i])).px[yl][xl] # depth.px[yl][xl]

---------------------------------------------------------------------------
(* Properties of NFTMinter, under MinterSpec. *)

\* C22: transfer_nft changes ownership only when an NFT with the token id
\* exists whose owner is from_address: then that NFT's owner becomes
\* to_address and the call returns True; otherwise it returns False and
\* every owner and the length of minted_nfts are as before.
C22_TransferOnlyByOwner ==
    [][ nft_call'.op = "transfer_nft" =>
          LET call == nft_call'
              Hit(i) == /\ minted_nfts[i].token_id = call.token_id
                        /\ minted_nfts[i].owner = call.from
          IN  /\ Len(minted_nfts') = Len(minted_nfts)
              /\ IF \E i \in 1 .. Len(minted_nfts) : Hit(i)
                 THEN /\ call.ret = TRUE
                      /\ \E i \in 1 .. Len(minted_nfts) :
                            /\ Hit(i)
                            /\ minted_nfts'[i] = [token_id |-> call.token_id, owner |-> call.to]
                            /\ \A j \in 1 .. Len(minted_nfts) : j # i => minted_nfts'[j] = minted_nfts[j]
                 ELSE /\ call.ret = FALSE
                      /\ minted_nfts' = minted_nfts ]_vars

\* A transfer by the owner to another address has succeeded.
C22_Witness ==
    /\ nft_call.op = "transfer_nft"
    /\ nft_call.ret = TRUE
    /\ nft_call.from # nft_call.to
    /\ \E i \in 1 .. Len(minted_nfts) :
          minted_nfts[i] = [token_id |-> nft_call.token_id, owner |-> nft_call.to]
    /\ \E i \in 1 .. Len(minted_nfts) : minted_nfts[i].owner = nft_call.from

\* No two NFTs of the list have the same token id.
DistinctTokenIds ==
    \A i, j \in 1 .. Len(minted_nfts) :
        minted_nfts[i].token_id = minted_nfts[j].token_id => i = j

\* verify_ownership holds of a minted token for exactly its holder.
OneOwnerEach ==
    DistinctTokenIds =>
        \A i \in 1 .. Len(minted_nfts) : \A a \in Addresses \cup {"nobody"} :
            verify_ownership(minted_nfts, minted_nfts[i].token_id, a)
                <=> a = nft_holder[minted_nfts[i].token_id]

\* C23: after any sequence of mint_nft and transfer_nft calls with distinct
\* token ids, verify_ownership(token, a) holds for exactly the address that
\* minted the token or last received it by a successful transfer; mint_nft
\* grows minted_nfts by exactly one and no call removes an NFT.
C23_OneOwnerPerToken ==
    /\ []OneOwnerEach
    /\ [][ /\ nft_call'.op = "mint_nft" => Len(minted_nfts') = Len(minted_nfts) + 1
            /\ Len(minted_nfts') >= Len(minted_nfts)
            /\ \A i \in 1 .. Len(minted_nfts) :
                  minted_nfts'[i].token_id = minted_nfts[i].token_id ]_vars

\* A token was minted and then transferred: its minter no longer owns it.
C23_Witness ==
    /\ DistinctTokenIds
    /\ Len(minted_nfts) > Len(MockNfts)
    /\ nft_call.op = "transfer_nft" /\ nft_call.ret = TRUE /\ nft_call.from # nft_call.to
    /\ nft_call.token_id = minted_nfts[Len(minted_nfts)].token_id
    /\ verify_ownership(minted_nfts, nft_call.token_id, nft_call.to)
    /\ ~verify_ownership(minted_nfts, nft_call.token_id, nft_call.from)
    /\ \E i \in 1 .. Len(MockNfts) : minted_nfts[i].owner # MockNfts[i].owner

---------------------------------------------------------------------------
(* Properties of the Streamlit session, under SessionSpec. *)

\* The statements of init_session.
InitPositions ==
    {"init_user", "init_cart", "init_impact", "init_nfts", "init_current_page", "init_wishlist"}

\* The current page is one of the sidebar's nine, and once the if/elif chain
\* has run, exactly one branch compares equal to it and its renderer is the
\* one called.
PageShown ==
    /\ "current_page" \in DOMAIN session => session["current_page"] \in Range(SidebarPages)
    /\ Len(SidebarPages) = 9
    /\ spc \in {"page", "render_footer", "idle"} =>
          LET taken == { i \in 1 .. Len(Branches) : Branches[i].page = session["current_page"] }
          IN  /\ Cardinality(taken) = 1
              /\ \A i \in taken : shown = Branches[i].renderer

\* C24: in every reachable session state current_page is one of the nine
\* pages of render_sidebar ("Home" when first set), and app.py dispatches
\* it to exactly one page renderer: no clicks lead to a run that shows no
\* page.
C24_CurrentPageAlwaysShown ==
    /\ []PageShown
    /\ [][ ("current_page" \notin DOMAIN session /\ "current_page" \in DOMAIN session')
              => session'["current_page"] = "Home" ]_vars

\* After some clicks the Settings page is the one shown.
C24_Witness ==
    /\ spc = "idle"
    /\ clicked = "Clear Cart"
    /\ session["current_page"] = "Settings"
    /\ shown = "show_settings"

C26_NoMissingKey ==
    run_error # "AttributeError"

====
